---- MODULE Spec2Model ----
(***************************************************************************)
(* Reversible-circuit model of                                             *)
(*   src/qiskit/synthesis/arithmetic/dividers/long_division_divider.py     *)
(*                                                                         *)
(* A builder (adder, ctrl_add, cmpr) is an operator returning the ordered  *)
(* gate list the Python function emits.  A circuit is given meaning by     *)
(* executing its gate list on a valuation of the wires (computational      *)
(* basis states; every gate used is a classical reversible gate).          *)
(* long_division_divider is modelled as the sequence of its append sites.  *)
(***************************************************************************)
EXTENDS Integers, Sequences, FiniteSets, TLC

VARIABLES fn,       \* the function under execution
          N,        \* width argument
          M,        \* second argument (divisor width / draper), None when absent
          inp,      \* the values loaded into the registers before the run
          st,       \* wire valuation of the circuit built with draper = False
          stF,      \* wire valuation of the circuit built with draper = True
          pc,       \* position in the function / circuit
          i,        \* loop variable of long_division_divider
          hist,     \* per-iteration record of the restoring division
          emitted,  \* number of gates the builder has appended so far
          created,  \* objects constructed so far by a divider entry point
          outcome   \* "none", "returned" or the exception raised

vars == <<fn, N, M, inp, st, stF, pc, i, hist, emitted, created, outcome>>

(***************************************************************************)
(* Bounds of the model                                                     *)
(***************************************************************************)
MaxAdderWidth == 8
MaxCtrlAddWidth == 7
MaxCmprWidth == 6
MaxDivWidth == 6
MaxBuildWidth == 6
MaxWidthArg == 4

\* Python's None for an argument that was not passed
None == 0 - 1

(***************************************************************************)
(* Python ranges and list helpers                                          *)
(***************************************************************************)
\* range(lo, hi)
Range(lo, hi) == [k \in 1..(hi - lo) |-> lo + k - 1]

\* range(hi, lo, -1)
RangeDown(hi, lo) == [k \in 1..(hi - lo) |-> hi - k + 1]

RECURSIVE Flatten(_)
Flatten(ss) == IF ss = <<>> THEN <<>> ELSE Head(ss) \o Flatten(Tail(ss))

\* for i in rng: body(i)     (body returns the gates of one iteration)
ForEach(rng, body(_)) == Flatten([k \in DOMAIN rng |-> body(rng[k])])

Pow2(n) == 2 ^ n

Bit(v, k) == (v \div Pow2(k)) % 2

(***************************************************************************)
(* Registers, wires and gates                                              *)
(***************************************************************************)
\* QuantumRegister(n, name)[k]
Wire(name, k) == <<name, k>>

\* the qubits of QuantumRegister(n, name), in order
Register(name, n) == [k \in 1..n |-> Wire(name, k - 1)]

qr_a(k) == Wire("a", k)
qr_b(k) == Wire("b", k)
qr_c(k) == Wire("c", k)
qr_aux(k) == Wire("aux", k)
qr_r(k) == Wire("r", k)

\* circuit.x(t)
X(t) == [op |-> "x", q |-> <<t>>, cs |-> <<>>]

\* circuit.cx(c, t)
CX(c, t) == [op |-> "cx", q |-> <<c, t>>, cs |-> <<1>>]

\* circuit.ccx(c1, c2, t): fires when c1 = 1 and c2 = 1
CCX(c1, c2, t) == [op |-> "ccx", q |-> <<c1, c2, t>>, cs |-> <<1, 1>>]

\* circuit.ccx(c1, c2, t, ctrl_state="01"): the rightmost character is the
\* state of the first control, so the gate fires when c1 = 1 and c2 = 0
CCX01(c1, c2, t) == [op |-> "ccx", q |-> <<c1, c2, t>>, cs |-> <<1, 0>>]

Flip(s, w) == [s EXCEPT ![w] = 1 - s[w]]

ApplyGate(g, s) ==
    CASE g.op = "x" -> Flip(s, g.q[1])
      [] g.op = "cx" -> IF s[g.q[1]] = g.cs[1] THEN Flip(s, g.q[2]) ELSE s
      [] g.op = "ccx" -> IF s[g.q[1]] = g.cs[1] /\ s[g.q[2]] = g.cs[2]
                         THEN Flip(s, g.q[3]) ELSE s

RECURSIVE ExecFrom(_, _, _)
ExecFrom(gs, k, s) ==
    IF k > Len(gs) THEN s ELSE ExecFrom(gs, k + 1, ApplyGate(gs[k], s))

\* run a gate list, first gate first
Exec(gs, s) == ExecFrom(gs, 1, s)

\* the integer held by the wires ws (ws[1] is the least significant bit)
RECURSIVE Val(_, _)
Val(s, ws) == IF ws = <<>> THEN 0 ELSE s[Head(ws)] + 2 * Val(s, Tail(ws))

\* the wires of QuantumRegister(n, name) loaded with the binary digits of v
\* (index 0 = least significant bit)
LoadReg(name, n, v) == [w \in {Wire(name, k) : k \in 0..(n - 1)} |-> Bit(v, w[2])]

(***************************************************************************)
(* Fragment builders: the gate list each function appends, in order        *)
(***************************************************************************)
\* adder without the low-order sum gate circuit.cx(qr_a[0], qr_b[0])
adder_no_low_sum(n) ==
    ForEach(RangeDown(n - 1, 0), LAMBDA k : <<CX(qr_a(k), qr_b(k))>>)
    \o ForEach(RangeDown(n - 2, 0), LAMBDA k : <<CX(qr_a(k), qr_a(k + 1))>>)
    \o ForEach(Range(0, n - 1), LAMBDA k : <<CCX(qr_a(k), qr_b(k), qr_a(k + 1))>>)
    \o ForEach(RangeDown(n - 1, 0),
               LAMBDA k : <<CX(qr_a(k), qr_b(k)),
                            CCX(qr_a(k - 1), qr_b(k - 1), qr_a(k))>>)
    \o ForEach(Range(1, n - 1), LAMBDA k : <<CX(qr_a(k), qr_a(k + 1))>>)
    \o ForEach(Range(1, n), LAMBDA k : <<CX(qr_a(k), qr_b(k))>>)

adder(n) ==
    \* 3: Calculate the binary add of a and b
    ForEach(RangeDown(n - 1, 0), LAMBDA k : <<CX(qr_a(k), qr_b(k))>>)
    \* 3b: step
    \o ForEach(RangeDown(n - 2, 0), LAMBDA k : <<CX(qr_a(k), qr_a(k + 1))>>)
    \* 4: shift ups
    \o ForEach(Range(0, n - 1), LAMBDA k : <<CCX(qr_a(k), qr_b(k), qr_a(k + 1))>>)
    \* 5: controlled sub
    \o ForEach(RangeDown(n - 1, 0),
               LAMBDA k : <<CX(qr_a(k), qr_b(k)),
                            CCX(qr_a(k - 1), qr_b(k - 1), qr_a(k))>>)
    \o <<CX(qr_a(0), qr_b(0))>>
    \* Undo 3b
    \o ForEach(Range(1, n - 1), LAMBDA k : <<CX(qr_a(k), qr_a(k + 1))>>)
    \* Undo 3a
    \o ForEach(Range(1, n), LAMBDA k : <<CX(qr_a(k), qr_b(k))>>)

\* the qubits of the circuit adder(n) returns: QuantumCircuit(qr_a, qr_b)
adder_qubits(n) == Register("a", n) \o Register("b", n)

\* ctrl_add whose low-order sum gate ignores the control wire
ctrl_add_low_sum_uncontrolled(n) ==
    ForEach(RangeDown(n - 1, 0), LAMBDA k : <<CX(qr_a(k), qr_b(k))>>)
    \o ForEach(RangeDown(n - 2, 0), LAMBDA k : <<CX(qr_a(k), qr_a(k + 1))>>)
    \o ForEach(Range(0, n - 1), LAMBDA k : <<CCX(qr_a(k), qr_b(k), qr_a(k + 1))>>)
    \o ForEach(RangeDown(n - 1, 0),
               LAMBDA k : <<CCX(qr_c(0), qr_a(k), qr_b(k)),
                            CCX(qr_a(k - 1), qr_b(k - 1), qr_a(k))>>)
    \o <<CX(qr_a(0), qr_b(0))>>
    \o ForEach(Range(1, n - 1), LAMBDA k : <<CX(qr_a(k), qr_a(k + 1))>>)
    \o ForEach(Range(1, n), LAMBDA k : <<CX(qr_a(k), qr_b(k))>>)

ctrl_add(n) ==
    \* 3: Calculate the binary add of a and b
    ForEach(RangeDown(n - 1, 0), LAMBDA k : <<CX(qr_a(k), qr_b(k))>>)
    \* 3b: step
    \o ForEach(RangeDown(n - 2, 0), LAMBDA k : <<CX(qr_a(k), qr_a(k + 1))>>)
    \* 4: shift ups
    \o ForEach(Range(0, n - 1), LAMBDA k : <<CCX(qr_a(k), qr_b(k), qr_a(k + 1))>>)
    \* 5: controlled sub
    \o ForEach(RangeDown(n - 1, 0),
               LAMBDA k : <<CCX(qr_c(0), qr_a(k), qr_b(k)),
                            CCX(qr_a(k - 1), qr_b(k - 1), qr_a(k))>>)
    \o <<CCX(qr_c(0), qr_a(0), qr_b(0))>>
    \* Undo 3b
    \o ForEach(Range(1, n - 1), LAMBDA k : <<CX(qr_a(k), qr_a(k + 1))>>)
    \* Undo 3a
    \o ForEach(Range(1, n), LAMBDA k : <<CX(qr_a(k), qr_b(k))>>)

\* QuantumCircuit(qr_a, qr_b, qr_c)
ctrl_add_qubits(n) == Register("a", n) \o Register("b", n) \o Register("c", 1)

\* the first control and the target of the ctrl_state="01" Toffoli of step k
cmpr_ctl(n, k) == IF k # 1 THEN qr_b(k - 1) ELSE qr_aux(0)

cmpr_tgt(n, k) == IF k # n - 1 THEN qr_b(k) ELSE qr_aux(1)

\* cmpr with the ctrl_state argument of the Toffoli chain left out
cmpr_plain_toffoli(n) ==
    ForEach(Range(0, n), LAMBDA k : <<CX(qr_b(k), qr_a(k))>>)
    \o <<CX(qr_b(1), qr_aux(0))>>
    \o ForEach(Range(2, n), LAMBDA k : <<CX(qr_b(k), qr_b(k - 1))>>)
    \o <<CX(qr_b(n - 1), qr_aux(1))>>
    \o <<CCX(qr_a(0), qr_b(0), qr_aux(0))>>
    \o ForEach(Range(1, n),
               LAMBDA k : <<CCX(cmpr_ctl(n, k), qr_a(k), cmpr_tgt(n, k))>>)
    \o ForEach(Range(1, n - 1),
               LAMBDA k : <<CCX(cmpr_ctl(n, k), qr_a(k), cmpr_tgt(n, k))>>)
    \o <<CCX(qr_a(0), qr_b(0), qr_aux(0))>>
    \o ForEach(Range(2, n), LAMBDA k : <<CX(qr_b(k), qr_b(k - 1))>>)
    \o <<CX(qr_b(1), qr_aux(0))>>
    \o ForEach(Range(0, n), LAMBDA k : <<CX(qr_b(k), qr_a(k))>>)

cmpr(n) ==
    \* 2: Computer xor
    ForEach(Range(0, n), LAMBDA k : <<CX(qr_b(k), qr_a(k))>>)
    \* cnots going up
    \o <<CX(qr_b(1), qr_aux(0))>>
    \o ForEach(Range(2, n), LAMBDA k : <<CX(qr_b(k), qr_b(k - 1))>>)
    \o <<CX(qr_b(n - 1), qr_aux(1))>>
    \o <<CCX(qr_a(0), qr_b(0), qr_aux(0))>>
    \o ForEach(Range(1, n),
               LAMBDA k : <<CCX01(cmpr_ctl(n, k), qr_a(k), cmpr_tgt(n, k))>>)
    \o ForEach(Range(1, n - 1),
               LAMBDA k : <<CCX01(cmpr_ctl(n, k), qr_a(k), cmpr_tgt(n, k))>>)
    \o <<CCX(qr_a(0), qr_b(0), qr_aux(0))>>
    \o ForEach(Range(2, n), LAMBDA k : <<CX(qr_b(k), qr_b(k - 1))>>)
    \o <<CX(qr_b(1), qr_aux(0))>>
    \o ForEach(Range(0, n), LAMBDA k : <<CX(qr_b(k), qr_a(k))>>)

\* QuantumCircuit(qr_a, qr_b, qr_aux)
cmpr_qubits(n) == Register("a", n) \o Register("b", n) \o Register("aux", 2)

\* The circuit objects, built once per width and then only executed or
\* appended (add = adder(N), cadd = ctrl_add(N) in long_division_divider)
MaxWidth == MaxAdderWidth + MaxCtrlAddWidth + MaxCmprWidth + MaxDivWidth

Circuits == [n \in 0..MaxWidth |->
               [add |-> adder(n), cadd |-> ctrl_add(n), cmp |-> cmpr(n)]]

(***************************************************************************)
(* Running one fragment on loaded registers                                *)
(***************************************************************************)
Values(n) == 0..(Pow2(n) - 1)

NoHist == [k \in {} |-> FALSE]

Idle == /\ M = None /\ i = 0 /\ hist = NoHist /\ emitted = 0
        /\ created = {} /\ outcome = "none"

InitAdder ==
    /\ fn = "adder"
    /\ N \in 1..MaxAdderWidth
    /\ inp \in [x : Values(N), y : Values(N)]
    /\ st = LoadReg("a", N, inp.x) @@ LoadReg("b", N, inp.y)
    /\ stF = st
    /\ pc = "start"
    /\ Idle

RunAdder ==
    /\ fn = "adder" /\ pc = "start"
    /\ st' = Exec(Circuits[N].add, st)
    /\ pc' = "done"
    /\ UNCHANGED <<fn, N, M, inp, stF, i, hist, emitted, created, outcome>>

SpecAdder == InitAdder /\ [][RunAdder]_vars

InitCtrlAdd ==
    /\ fn = "ctrl_add"
    /\ N \in 1..MaxCtrlAddWidth
    /\ inp \in [x : Values(N), y : Values(N), c : 0..1]
    /\ st = LoadReg("a", N, inp.x) @@ LoadReg("b", N, inp.y)
             @@ LoadReg("c", 1, inp.c)
    /\ stF = st
    /\ pc = "start"
    /\ Idle

RunCtrlAdd ==
    /\ fn = "ctrl_add" /\ pc = "start"
    /\ st' = Exec(Circuits[N].cadd, st)
    /\ pc' = "done"
    /\ UNCHANGED <<fn, N, M, inp, stF, i, hist, emitted, created, outcome>>

SpecCtrlAdd == InitCtrlAdd /\ [][RunCtrlAdd]_vars

InitCmpr ==
    /\ fn = "cmpr"
    /\ N \in 2..MaxCmprWidth
    /\ inp \in [x : Values(N), y : Values(N)]
    /\ st = LoadReg("a", N, inp.x) @@ LoadReg("b", N, inp.y)
             @@ LoadReg("aux", 2, 0)
    /\ stF = st
    /\ pc = "start"
    /\ Idle

RunCmpr ==
    /\ fn = "cmpr" /\ pc = "start"
    /\ st' = Exec(Circuits[N].cmp, st)
    /\ pc' = "done"
    /\ UNCHANGED <<fn, N, M, inp, stF, i, hist, emitted, created, outcome>>

SpecCmpr == InitCmpr /\ [][RunCmpr]_vars

(***************************************************************************)
(* C2  Adder correctness: after the gates of adder(N) have run on a = x,   *)
(* b = y, register a holds x and register b holds (x + y) mod 2^N.         *)
(***************************************************************************)
AdderCorrect ==
    (fn = "adder" /\ pc = "done") =>
        /\ Val(st, Register("a", N)) = inp.x
        /\ Val(st, Register("b", N)) = (inp.x + inp.y) % Pow2(N)

\* a run whose sum wraps around and carries out of the low bit
AdderCorrectWitness ==
    /\ fn = "adder" /\ pc = "done" /\ N = 3
    /\ inp.x = 7 /\ inp.y = 5
    /\ Val(st, Register("b", N)) = 4

(***************************************************************************)
(* C3  Controlled adder gating: with c = 0 every wire ends as it started;  *)
(* with c = 1 registers a and b end as adder(N) leaves them on the same    *)
(* inputs (a = x, b = (x + y) mod 2^N) and c is still 1.                   *)
(***************************************************************************)
CtrlAddGating ==
    (fn = "ctrl_add" /\ pc = "done") =>
        /\ inp.c = 0 =>
              st = LoadReg("a", N, inp.x) @@ LoadReg("b", N, inp.y)
                   @@ LoadReg("c", 1, 0)
        /\ inp.c = 1 =>
              /\ Val(st, Register("a", N)) = inp.x
              /\ Val(st, Register("b", N)) = (inp.x + inp.y) % Pow2(N)
              /\ st[qr_c(0)] = 1
              /\ LET ad == Exec(Circuits[N].add, LoadReg("a", N, inp.x)
                                          @@ LoadReg("b", N, inp.y))
                 IN \A w \in DOMAIN ad : st[w] = ad[w]

\* a gated-off run that would otherwise have changed b
CtrlAddGatingWitness ==
    /\ fn = "ctrl_add" /\ pc = "done" /\ N = 3
    /\ inp.c = 0 /\ inp.x = 6 /\ inp.y = 3
    /\ Val(st, Register("b", N)) = 3

(***************************************************************************)
(* The comparator                                                          *)
(***************************************************************************)
Ordering(x, y) == IF x < y THEN "lt" ELSE IF x = y THEN "eq" ELSE "gt"

\* the aux pair cmpr(n) leaves behind on a = x, b = y, aux = 00
AuxAfter(n, x, y) ==
    LET s == Exec(Circuits[n].cmp,
                  LoadReg("a", n, x) @@ LoadReg("b", n, y) @@ LoadReg("aux", 2, 0))
    IN <<s[qr_aux(0)], s[qr_aux(1)]>>

(***************************************************************************)
(* C4 (as stated)  Comparator soundness: the aux pair is a code of the     *)
(* three orderings x < y, x = y, x > y: two inputs end with the same aux   *)
(* pair exactly when they have the same ordering.                          *)
(***************************************************************************)
CmprThreeWayCode ==
    (fn = "cmpr" /\ pc = "done") =>
        \A x2 \in Values(N), y2 \in Values(N) :
            (Ordering(x2, y2) = Ordering(inp.x, inp.y))
                <=> (AuxAfter(N, x2, y2) = <<st[qr_aux(0)], st[qr_aux(1)]>>)

(***************************************************************************)
(* C4 (amended)  The comparator is two-way: after cmpr(N) on a = x, b = y, *)
(* aux = 00 the wire aux[1] holds 1 exactly when x < y, and 0 both when    *)
(* x = y and when x > y.                                                   *)
(***************************************************************************)
CmprLessThanBit ==
    (fn = "cmpr" /\ pc = "done") =>
        (st[qr_aux(1)] = 1 <=> inp.x < inp.y)

\* a comparison decided below the top bit, with equal top bits
CmprLessThanBitWitness ==
    /\ fn = "cmpr" /\ pc = "done" /\ N = 4
    /\ inp.x = 9 /\ inp.y = 10
    /\ st[qr_aux(1)] = 1

(***************************************************************************)
(* C5  Comparator uncomputation: after cmpr(N) register a holds x and      *)
(* register b holds y again, on every wire.                                *)
(***************************************************************************)
CmprRestoresInputs ==
    (fn = "cmpr" /\ pc = "done") =>
        /\ \A k \in 0..(N - 1) : st[qr_a(k)] = Bit(inp.x, k)
        /\ \A k \in 0..(N - 1) : st[qr_b(k)] = Bit(inp.y, k)

(***************************************************************************)
(* Building a fragment: the Python function appends its gates one by one;  *)
(* indexing a register outside its size raises IndexError on the spot      *)
(***************************************************************************)
Builders == {"adder", "ctrl_add", "cmpr"}

\* the registers each builder declares, with their sizes
RegSizes(f, n) ==
    CASE f = "adder" -> [a |-> n, b |-> n]
      [] f = "ctrl_add" -> [a |-> n, b |-> n, c |-> 1]
      [] f = "cmpr" -> [a |-> n, b |-> n, aux |-> 2]

\* the gate statements of the builder, in program order
Program(f, n) ==
    CASE f = "adder" -> Circuits[n].add
      [] f = "ctrl_add" -> Circuits[n].cadd
      [] f = "cmpr" -> Circuits[n].cmp

\* qr[k] on a register of the given size (Python list indexing)
IndexOk(size, k) == (0 - size) <= k /\ k < size

GateOk(f, n, g) ==
    \A j \in DOMAIN g.q : IndexOk(RegSizes(f, n)[g.q[j][1]], g.q[j][2])

InitBuild ==
    /\ fn \in Builders
    /\ N \in 0..MaxBuildWidth
    /\ M = None /\ inp = <<>> /\ st = <<>> /\ stF = <<>>
    /\ pc = "building"
    /\ i = 0 /\ hist = NoHist /\ emitted = 0 /\ created = {} /\ outcome = "none"

AppendGate ==
    /\ fn \in Builders /\ pc = "building"
    /\ emitted < Len(Program(fn, N))
    /\ GateOk(fn, N, Program(fn, N)[emitted + 1])
    /\ emitted' = emitted + 1
    /\ UNCHANGED <<fn, N, M, inp, st, stF, pc, i, hist, created, outcome>>

RaiseIndexError ==
    /\ fn \in Builders /\ pc = "building"
    /\ emitted < Len(Program(fn, N))
    /\ ~GateOk(fn, N, Program(fn, N)[emitted + 1])
    /\ outcome' = "IndexError"
    /\ pc' = "raised"
    /\ UNCHANGED <<fn, N, M, inp, st, stF, i, hist, emitted, created>>

ReturnCircuit ==
    /\ fn \in Builders /\ pc = "building"
    /\ emitted = Len(Program(fn, N))
    /\ outcome' = "returned"
    /\ pc' = "returned"
    /\ UNCHANGED <<fn, N, M, inp, st, stF, i, hist, emitted, created>>

NextBuild == AppendGate \/ RaiseIndexError \/ ReturnCircuit

SpecBuild == InitBuild /\ [][NextBuild]_vars

(***************************************************************************)
(* C7  Builder totality: for every width N >= 1 each of adder, ctrl_add    *)
(* and cmpr returns a circuit without raising (every gate addresses wires  *)
(* that exist); only width 0 ends in an error.                             *)
(***************************************************************************)
BuilderTotal ==
    fn \in Builders =>
        /\ N >= 1 => outcome # "IndexError"
        /\ N = 0 => outcome # "returned"

(***************************************************************************)
(* The two divider entry points, called as divider(N, M): the steps up to  *)
(* the first gate, and what each has constructed when it stops             *)
(***************************************************************************)
Dividers == {"long_division_divider", "other_divider"}

\* does running the builder f at width n end in an exception
BuildRaises(f, n) == \E k \in DOMAIN Program(f, n) : ~GateOk(f, n, Program(f, n)[k])

\* Python truthiness of the value bound to the parameter draper
Truthy(v) == v # None /\ v # 0

InitWidth ==
    /\ fn \in Dividers
    /\ N \in 1..MaxWidthArg
    /\ M \in {None} \cup 0..(MaxWidthArg + 1)
    /\ inp = [N |-> N, M |-> M]
    /\ st = <<>> /\ stF = <<>>
    /\ pc = "entry"
    /\ i = 0 /\ hist = NoHist /\ emitted = 0 /\ created = {} /\ outcome = "none"

\* other_divider: if num_divisor_qubits is None: num_divisor_qubits = num_dividend_qubits
OD_DefaultWidth ==
    /\ fn = "other_divider" /\ pc = "entry"
    /\ M = None
    /\ M' = N
    /\ pc' = "registers"
    /\ UNCHANGED <<fn, N, inp, st, stF, i, hist, emitted, created, outcome>>

\* other_divider: elif num_divisor_qubits > num_dividend_qubits: raise ValueError
OD_WidthCheck ==
    /\ fn = "other_divider" /\ pc = "entry"
    /\ M # None
    /\ IF M > N
       THEN outcome' = "ValueError" /\ pc' = "raised"
       ELSE outcome' = outcome /\ pc' = "registers"
    /\ UNCHANGED <<fn, N, M, inp, st, stF, i, hist, emitted, created>>

\* other_divider: qr_d, qr_q, qr_s, qr_aux and the QuantumCircuit over them
OD_Registers ==
    /\ fn = "other_divider" /\ pc = "registers"
    /\ created' = created \cup {"registers", "circuit"}
    /\ pc' = "fragments"
    /\ UNCHANGED <<fn, N, M, inp, st, stF, i, hist, emitted, outcome>>

\* other_divider: comparator = cmpr(M); sub_eql = ctrl_sbt(M), a name the
\* module never defines
OD_Fragments ==
    /\ fn = "other_divider" /\ pc = "fragments"
    /\ IF BuildRaises("cmpr", M)
       THEN outcome' = "IndexError" /\ created' = created
       ELSE outcome' = "NameError" /\ created' = created \cup {"fragments"}
    /\ pc' = "raised"
    /\ UNCHANGED <<fn, N, M, inp, st, stF, i, hist, emitted>>

\* long_division_divider(N, draper): the body starts with the registers;
\* there is no width test, the second positional argument is draper
LD_Registers ==
    /\ fn = "long_division_divider" /\ pc = "entry"
    /\ created' = created \cup {"registers", "circuit"}
    /\ pc' = "fragments"
    /\ UNCHANGED <<fn, N, M, inp, st, stF, i, hist, emitted, outcome>>

\* long_division_divider: add = adder(N); cadd = ctrl_add(N); if draper: ...
LD_Fragments ==
    /\ fn = "long_division_divider" /\ pc = "fragments"
    /\ IF BuildRaises("adder", N) \/ BuildRaises("ctrl_add", N)
       THEN outcome' = "IndexError" /\ pc' = "raised" /\ created' = created
       ELSE /\ outcome' = outcome
            /\ pc' = "gates"
            /\ created' = created \cup {"fragments"}
                              \cup (IF Truthy(M) THEN {"draper"} ELSE {})
    /\ UNCHANGED <<fn, N, M, inp, st, stF, i, hist, emitted>>

\* long_division_divider: the loop, the final iteration and return circuit
LD_Gates ==
    /\ fn = "long_division_divider" /\ pc = "gates"
    /\ created' = created \cup {"gates"}
    /\ outcome' = "returned"
    /\ pc' = "returned"
    /\ UNCHANGED <<fn, N, M, inp, st, stF, i, hist, emitted>>

NextWidth ==
    \/ OD_DefaultWidth \/ OD_WidthCheck \/ OD_Registers \/ OD_Fragments
    \/ LD_Registers \/ LD_Fragments \/ LD_Gates

SpecWidth == InitWidth /\ [][NextWidth]_vars

(***************************************************************************)
(* C8  Width-boundary failure: a divider requested with divisor width M    *)
(* greater than dividend width N ends in ValueError before any register,   *)
(* fragment or gate is created; for M <= N no ValueError is raised.        *)
(***************************************************************************)
WidthBoundaryFailure ==
    fn \in Dividers =>
        /\ (inp.M # None /\ inp.M > inp.N) =>
              /\ created = {}
              /\ outcome \in {"none", "ValueError"}
              /\ pc # "entry" => outcome = "ValueError"
        /\ (inp.M = None \/ inp.M <= inp.N) => outcome # "ValueError"

\* the same statement about the draft entry point alone, which has the test
WidthBoundaryFailureOtherDivider ==
    fn = "other_divider" => WidthBoundaryFailure

(***************************************************************************)
(* circuit.append(fragment, qargs): wire splicing                          *)
(***************************************************************************)
\* the gates of a fragment with its k-th qubit replaced by qargs[k]
Remap(gs, qubits, qargs) ==
    [j \in DOMAIN gs |->
        [gs[j] EXCEPT !.q = [m \in DOMAIN gs[j].q |->
            qargs[CHOOSE p \in DOMAIN qubits : qubits[p] = gs[j].q[m]]]]]

\* circuit.x(ws) on a list of wires
XAll(s, ws) == [w \in DOMAIN s |-> IF \E k \in DOMAIN ws : ws[k] = w
                                   THEN 1 - s[w] ELSE s[w]]

\* the wires ws loaded with the binary digits of v, the rest as in s
Store(s, ws, v) ==
    [w \in DOMAIN s |-> IF \E k \in DOMAIN ws : ws[k] = w
                        THEN Bit(v, (CHOOSE k \in DOMAIN ws : ws[k] = w) - 1)
                        ELSE s[w]]

\* DraperQFTAdder(n, kind="fixed") on qubits [a..., b...]:
\* (a, b) -> (a, (a + b) mod 2^n)
AppendDraper(s, n, qargs) ==
    LET aw == SubSeq(qargs, 1, n)
        bw == SubSeq(qargs, n + 1, 2 * n)
    IN Store(s, bw, (Val(s, aw) + Val(s, bw)) % Pow2(n))

\* DraperQFTAdder(n, kind="fixed").control() on qubits [control, a..., b...]
AppendCtrlDraper(s, n, qargs) ==
    IF s[qargs[1]] = 1 THEN AppendDraper(s, n, SubSeq(qargs, 2, 2 * n + 1)) ELSE s

(***************************************************************************)
(* long_division_divider(N, draper): one action per statement of the body. *)
(* st is the circuit built with draper = False, stF the circuit built with *)
(* draper = True; both run on the same loaded registers.                   *)
(***************************************************************************)
\* Y = qr_a[N - i:] + qr_r[:N - i]
WindowY(n, k) ==
    SubSeq(Register("a", n), n - k + 1, n) \o SubSeq(Register("r", n), 1, n - k)

\* qr_b[:] + Y
AddArgs(n, target) == Register("b", n) \o target

\* the ripple-carry controlled adder appended with the control wire first
CaddArgs_control_first(n, target, ctl) == <<ctl>> \o Register("b", n) \o target

\* qr_b[:] + Y[:] + [qr_r[N - i]]
CaddArgs(n, target, ctl) == Register("b", n) \o target \o <<ctl>>

\* the controlled Fourier adder appended with the control wire last
DraperCaddArgs_control_last(n, target, ctl) == Register("b", n) \o target \o <<ctl>>

\* [qr_r[N - i]] + qr_b[:] + Y[:]
DraperCaddArgs(n, target, ctl) == <<ctl>> \o Register("b", n) \o target

\* the spliced gates of every append site of the draper = False circuit:
\* for width n, loop[k] are the sites of loop iteration k (window Y) and
\* final the sites after the loop (window qr_a)
SplicedSites(n, target, ctl) ==
    [add |-> Remap(Circuits[n].add, adder_qubits(n), AddArgs(n, target)),
     cadd |-> Remap(Circuits[n].cadd, ctrl_add_qubits(n), CaddArgs(n, target, ctl))]

Spliced ==
    [n \in 2..MaxDivWidth |->
        [loop |-> [k \in 1..(n - 1) |-> SplicedSites(n, WindowY(n, k), qr_r(n - k))],
         final |-> SplicedSites(n, Register("a", n), qr_r(0))]]

InitDiv ==
    /\ fn = "long_division_divider"
    /\ N \in 2..MaxDivWidth
    /\ M = None
    /\ inp \in [d : Values(N), q : Values(N)]
    /\ st = LoadReg("a", N, inp.d) @@ LoadReg("b", N, inp.q) @@ LoadReg("r", N, 0)
    /\ stF = st
    /\ pc = "negate"
    /\ i = 1
    /\ hist = [fit |-> {}, restored |-> {}]
    /\ emitted = 0 /\ created = {} /\ outcome = "none"

\* hist.fit gains the iteration when the divisor fits into the window
NoteFit(target) ==
    hist' = IF Val(st, target) >= Val(st, Register("b", N))
            THEN [hist EXCEPT !.fit = @ \cup {i}] ELSE hist

\* hist.restored gains the iteration when the controlled adder is switched on
NoteRestore(ctl) ==
    hist' = IF st[ctl] = 1 THEN [hist EXCEPT !.restored = @ \cup {i}] ELSE hist

InLoop == fn = "long_division_divider" /\ i < N

AfterLoop == fn = "long_division_divider" /\ i = N

\* for i in range(1, N): Y = qr_a[N - i:] + qr_r[:N - i]; circuit.x(Y)
LoopNegate ==
    /\ InLoop /\ pc = "negate"
    /\ st' = XAll(st, WindowY(N, i))
    /\ stF' = XAll(stF, WindowY(N, i))
    /\ NoteFit(WindowY(N, i))
    /\ pc' = "add"
    /\ UNCHANGED <<fn, N, M, inp, i, emitted, created, outcome>>

\* circuit.append(add, qr_b[:] + Y)
LoopSubtract ==
    /\ InLoop /\ pc = "add"
    /\ st' = Exec(Spliced[N].loop[i].add, st)
    /\ stF' = AppendDraper(stF, N, AddArgs(N, WindowY(N, i)))
    /\ pc' = "negate_back"
    /\ UNCHANGED <<fn, N, M, inp, i, hist, emitted, created, outcome>>

\* circuit.x(Y)
LoopNegateBack ==
    /\ InLoop /\ pc = "negate_back"
    /\ st' = XAll(st, WindowY(N, i))
    /\ stF' = XAll(stF, WindowY(N, i))
    /\ pc' = "copy_sign"
    /\ UNCHANGED <<fn, N, M, inp, i, hist, emitted, created, outcome>>

\* circuit.cx(Y[N - 1], qr_r[N - i])
LoopCopySign ==
    /\ InLoop /\ pc = "copy_sign"
    /\ st' = ApplyGate(CX(WindowY(N, i)[N], qr_r(N - i)), st)
    /\ stF' = ApplyGate(CX(WindowY(N, i)[N], qr_r(N - i)), stF)
    /\ pc' = "cadd"
    /\ UNCHANGED <<fn, N, M, inp, i, hist, emitted, created, outcome>>

\* if draper: circuit.append(cadd, [qr_r[N - i]] + qr_b[:] + Y[:])
\* else:      circuit.append(cadd, qr_b[:] + Y[:] + [qr_r[N - i]])
LoopControlledAdd ==
    /\ InLoop /\ pc = "cadd"
    /\ st' = Exec(Spliced[N].loop[i].cadd, st)
    /\ stF' = AppendCtrlDraper(stF, N, DraperCaddArgs(N, WindowY(N, i), qr_r(N - i)))
    /\ NoteRestore(qr_r(N - i))
    /\ pc' = "flip"
    /\ UNCHANGED <<fn, N, M, inp, i, emitted, created, outcome>>

\* circuit.x(qr_r[N - i]), then the next i; i = N stands for the statements
\* after the loop
LoopFlip ==
    /\ InLoop /\ pc = "flip"
    /\ st' = ApplyGate(X(qr_r(N - i)), st)
    /\ stF' = ApplyGate(X(qr_r(N - i)), stF)
    /\ i' = i + 1
    /\ pc' = "negate"
    /\ UNCHANGED <<fn, N, M, inp, hist, emitted, created, outcome>>

\* circuit.x(qr_a)
FinalNegate ==
    /\ AfterLoop /\ pc = "negate"
    /\ st' = XAll(st, Register("a", N))
    /\ stF' = XAll(stF, Register("a", N))
    /\ NoteFit(Register("a", N))
    /\ pc' = "add"
    /\ UNCHANGED <<fn, N, M, inp, i, emitted, created, outcome>>

\* circuit.append(add, qr_b[:] + qr_a[:])
FinalSubtract ==
    /\ AfterLoop /\ pc = "add"
    /\ st' = Exec(Spliced[N].final.add, st)
    /\ stF' = AppendDraper(stF, N, AddArgs(N, Register("a", N)))
    /\ pc' = "negate_back"
    /\ UNCHANGED <<fn, N, M, inp, i, hist, emitted, created, outcome>>

\* circuit.x(qr_a)
FinalNegateBack ==
    /\ AfterLoop /\ pc = "negate_back"
    /\ st' = XAll(st, Register("a", N))
    /\ stF' = XAll(stF, Register("a", N))
    /\ pc' = "copy_sign"
    /\ UNCHANGED <<fn, N, M, inp, i, hist, emitted, created, outcome>>

\* circuit.cx(qr_a[N - 1], qr_r[0])
FinalCopySign ==
    /\ AfterLoop /\ pc = "copy_sign"
    /\ st' = ApplyGate(CX(qr_a(N - 1), qr_r(0)), st)
    /\ stF' = ApplyGate(CX(qr_a(N - 1), qr_r(0)), stF)
    /\ pc' = "cadd"
    /\ UNCHANGED <<fn, N, M, inp, i, hist, emitted, created, outcome>>

\* if draper: circuit.append(cadd, [qr_r[0]] + qr_b[:] + qr_a[:])
\* else:      circuit.append(cadd, qr_b[:] + qr_a[:] + [qr_r[0]])
FinalControlledAdd ==
    /\ AfterLoop /\ pc = "cadd"
    /\ st' = Exec(Spliced[N].final.cadd, st)
    /\ stF' = AppendCtrlDraper(stF, N, DraperCaddArgs(N, Register("a", N), qr_r(0)))
    /\ NoteRestore(qr_r(0))
    /\ pc' = "flip"
    /\ UNCHANGED <<fn, N, M, inp, i, emitted, created, outcome>>

\* circuit.x(qr_r[0]); return circuit
FinalFlip ==
    /\ AfterLoop /\ pc = "flip"
    /\ st' = ApplyGate(X(qr_r(0)), st)
    /\ stF' = ApplyGate(X(qr_r(0)), stF)
    /\ pc' = "done"
    /\ UNCHANGED <<fn, N, M, inp, i, hist, emitted, created, outcome>>

NextDiv ==
    \/ LoopNegate \/ LoopSubtract \/ LoopNegateBack
    \/ LoopCopySign \/ LoopControlledAdd \/ LoopFlip
    \/ FinalNegate \/ FinalSubtract \/ FinalNegateBack
    \/ FinalCopySign \/ FinalControlledAdd \/ FinalFlip

SpecDiv == InitDiv /\ [][NextDiv]_vars

Quotient(s) == Val(s, Register("r", N))

Remainder(s) == Val(s, Register("a", N))

(***************************************************************************)
(* C1  Division correctness: for every nonzero divisor q of the N-bit      *)
(* register the run ends with d = quotient * q + remainder and             *)
(* 0 <= remainder < q, quotient read from r, remainder from a.             *)
(***************************************************************************)
DivisionCorrect ==
    (fn = "long_division_divider" /\ pc = "done" /\ inp.q >= 1) =>
        /\ inp.d = Quotient(st) * inp.q + Remainder(st)
        /\ 0 <= Remainder(st)
        /\ Remainder(st) < inp.q

(***************************************************************************)
(* C6  Fourier-adder substitution equivalence: the circuit built with      *)
(* draper = True ends with the same values in r and in the dividend        *)
(* register a as the circuit built with draper = False.                    *)
(***************************************************************************)
FourierEquivalence ==
    (fn = "long_division_divider" /\ pc = "done") =>
        /\ \A k \in 0..(N - 1) : stF[qr_r(k)] = st[qr_r(k)]
        /\ \A k \in 0..(N - 1) : stF[qr_a(k)] = st[qr_a(k)]

\* 10 / 3 on four bits in the draper = True circuit, with both controlled
\* adders that fired and controlled adders that did not
FourierEquivalenceWitness ==
    /\ fn = "long_division_divider" /\ pc = "done" /\ N = 4
    /\ inp.d = 10 /\ inp.q = 3
    /\ Quotient(stF) = 3 /\ Remainder(stF) = 1
    /\ hist.restored = {1, 2}

(***************************************************************************)
(* C9  Ancilla hygiene: whenever the sign bit is about to be copied by     *)
(* CNOT into r[N-i] (or r[0] in the final iteration), that wire holds 0,   *)
(* for any dividend and any divisor.                                       *)
(***************************************************************************)
AncillaClean ==
    (fn = "long_division_divider" /\ pc = "copy_sign") => st[qr_r(N - i)] = 0

(***************************************************************************)
(* C10  Restoring division under a half-range divisor: for                 *)
(* 1 <= q <= 2^(N-1) the run ends with r = floor(d / q), a = d mod q and   *)
(* b = q; the bit stored for iteration i is 1 exactly when the divisor     *)
(* fitted into the window and 0 exactly when the controlled add restored   *)
(* the window.                                                             *)
(***************************************************************************)
HalfRangeDivision ==
    (/\ fn = "long_division_divider" /\ pc = "done"
     /\ 1 <= inp.q /\ inp.q <= Pow2(N - 1)) =>
        /\ Quotient(st) = inp.d \div inp.q
        /\ Remainder(st) = inp.d % inp.q
        /\ Val(st, Register("b", N)) = inp.q
        /\ \A k \in 1..N :
              /\ st[qr_r(N - k)] = 1 <=> k \in hist.fit
              /\ st[qr_r(N - k)] = 0 <=> k \in hist.restored

\* 10 / 3 on four bits: two restored iterations, then two that fit
HalfRangeDivisionWitness ==
    /\ fn = "long_division_divider" /\ pc = "done" /\ N = 4
    /\ inp.d = 10 /\ inp.q = 3
    /\ Quotient(st) = 3 /\ Remainder(st) = 1
    /\ hist.fit = {3, 4} /\ hist.restored = {1, 2}

====
